---- MODULE Spec2Model ----
(***************************************************************************)
(* The MCP calendar server of src/index.js as a state machine: module      *)
(* start-up, the list-tools and call-tool request handlers, the suspended  *)
(* remote insertion of createCalendarEvent and the process's reaction to   *)
(* termination signals.                                                    *)
(*                                                                         *)
(* JavaScript values are modelled as follows.                              *)
(*   - an optional value (a property that may be undefined) is a sequence  *)
(*     of length 0 (undefined) or 1 (the value);                           *)
(*   - a string built by a template literal is the sequence of its pieces  *)
(*     (the literal parts and the interpolated values), so that            *)
(*     "contains" and "equals" are decided on what the code concatenates;  *)
(*   - a value with a run-time type that matters (attendees may be an      *)
(*     array or, schema notwithstanding, a string) carries its kind.       *)
(***************************************************************************)
EXTENDS Naturals, Sequences, FiniteSets

\* ------------------------------------------------------------------ bounds

\* Requests that may be in flight at once (JSON-RPC request slots).
MaxCalls == 2
\* Longest attendee list drawn for a request.
MaxAttendees == 2

\* ------------------------------------------------------------ JS primitives

Opt(S) == {<<>>} \cup {<<x>> : x \in S}

IsUndefined(o) == Len(o) = 0

\* if (x) on a string-valued property: undefined and "" are falsy.
TruthyString(o) == Len(o) = 1 /\ o[1] /= ""

\* if (x) on an object- or array-valued property: every object is truthy,
\* the empty array and the empty object included.
TruthyObject(o) == Len(o) = 1

Contains(text, piece) == \E i \in 1..Len(text) : text[i] = piece

SeqsUpTo(S, n) == UNION {[1..k -> S] : k \in 0..n}

JSArray(items) == [kind |-> "array", items |-> items]
\* A non-empty string where an array is expected (it has no .map).
JSString == [kind |-> "string", items |-> <<>>]

\* ------------------------------------------------------------------ inputs

ToolNames == {"create_event", "delete_event"}
SummaryVals == {"", "Sync"}
StartVals == {"", "2025-01-01T10:00:00+09:00"}
EndVals == {"", "2025-01-01T10:30:00+09:00"}
DescriptionVals == {"weekly"}
LocationVals == {"", "Room 1"}
Emails == {"a@x.io", "b@x.io"}
AttendeeVals == {JSArray(s) : s \in SeqsUpTo(Emails, MaxAttendees)} \cup {JSString}
EmptyObject == [useDefault |-> <<>>, overrides |-> <<>>]
ProviderDefaults == [useDefault |-> <<TRUE>>, overrides |-> <<>>]
EmailReminder == [useDefault |-> <<FALSE>>,
                  overrides |-> << <<[method |-> "email", minutes |-> 30]>> >>]
ReminderVals == {EmptyObject, ProviderDefaults, EmailReminder}

\* The argument bags of a create_event call: every property may be missing.
ArgBags ==
  [summary : Opt(SummaryVals), start_time : Opt(StartVals), end_time : Opt(EndVals),
   description : Opt(DescriptionVals), location : Opt(LocationVals),
   attendees : Opt(AttendeeVals), reminders : Opt(ReminderVals)]

\* The bags drawn when several calls overlap: start and end given, no
\* description or location, and a few shapes of the other properties.
OverlapBags ==
  {b \in ArgBags :
     /\ b.start_time = <<"2025-01-01T10:00:00+09:00">>
     /\ b.end_time = <<"2025-01-01T10:30:00+09:00">>
     /\ IsUndefined(b.description) /\ IsUndefined(b.location)
     /\ \/ b.summary = <<"Sync">> /\ IsUndefined(b.attendees) /\ IsUndefined(b.reminders)
        \/ IsUndefined(b.summary) /\ IsUndefined(b.attendees) /\ IsUndefined(b.reminders)
        \/ b.summary = <<"Sync">> /\ b.attendees = <<JSArray(<<"b@x.io", "a@x.io">>)>>
             /\ b.reminders = <<EmailReminder>>
        \/ b.summary = <<"Sync">> /\ b.attendees = <<JSString>> /\ IsUndefined(b.reminders)}

\* request.params of a tools/call request: {name, arguments}.
AllRequests == [name : ToolNames, arguments : Opt(ArgBags)]
OverlapRequests == [name : ToolNames, arguments : Opt(OverlapBags)]

\* What the calendar provider may answer to an insertion.
Links == {"https://cal/e1", "https://cal/e2"}
FailureTexts == {"invalid_grant", "Quota exceeded"}

Signals == {"SIGHUP", "SIGINT", "SIGTERM"}
SignalNumber(sig) == CASE sig = "SIGHUP" -> 1 [] sig = "SIGINT" -> 2 [] OTHER -> 15

Environments ==
  [GOOGLE_CLIENT_ID : Opt({"", "client-id"}),
   GOOGLE_CLIENT_SECRET : Opt({"", "client-secret"}),
   GOOGLE_REFRESH_TOKEN : Opt({"refresh-token"})]

\* ------------------------------------------------------------------- state

VARIABLES
  env,        \* process.env as read at lines 92, 93 and 116 (never written)
  proc,       \* "loading" | "connecting" | "running" | "exited"
  exit,       \* the exit status, once there is one
  signalled,  \* the termination signal delivered to the process, if any,
              \* with the phase (proc) it found the process in
  stderr,     \* the last line written to the diagnostic stream
  calls       \* per request slot: the activation of the call-tool handler

vars == <<env, proc, exit, signalled, stderr, calls>>

Calls == 1..MaxCalls

\* One activation: its position, request.params, the locals oauth2Client
\* and event of createCalendarEvent, the settled insertion and the value the
\* handler's promise settled with. overlapped is history: whether another
\* call was suspended at its insertion while this one was.
IdleCall ==
  [pc |-> "idle", request |-> <<>>, client |-> <<>>, event |-> <<>>,
   response |-> <<>>, result |-> <<>>, overlapped |-> FALSE]

Debug(msg) == [tag |-> "DEBUG:", msg |-> msg]
Plain(msg) == [tag |-> "", msg |-> msg]

\* ------------------------------------------------------- createCalendarEvent

CREATE_EVENT_TOOL ==
  [name |-> "create_event", required |-> {"summary", "start_time", "end_time"}]

\* new google.auth.OAuth2(...) followed by setCredentials(...).
OAuth2Client(e) ==
  [clientId |-> e.GOOGLE_CLIENT_ID, clientSecret |-> e.GOOGLE_CLIENT_SECRET,
   redirectUri |-> "http://localhost",
   credentials |-> [refresh_token |-> e.GOOGLE_REFRESH_TOKEN,
                    token_uri |-> "https://oauth2.googleapis.com/token"]]

\* const event = {summary, description, start, end}: a missing argument is an
\* undefined property, which the request body then does not carry.
EventObject(args) ==
  [summary |-> args.summary, description |-> args.description,
   start |-> [dateTime |-> args.start_time, timeZone |-> "Asia/Seoul"],
   end |-> [dateTime |-> args.end_time, timeZone |-> "Asia/Seoul"],
   location |-> <<>>, attendees |-> <<>>, reminders |-> <<>>]

\* if (args.location) event.location = args.location
AddLocation(event, args) ==
  IF TruthyString(args.location) THEN [event EXCEPT !.location = args.location]
  ELSE event

\* args.attendees.map(...) on a value that is no array: a TypeError.
MapThrows(args) == TruthyObject(args.attendees) /\ args.attendees[1].kind /= "array"

MapTypeError == <<"args.attendees.map is not a function">>

\* args.attendees.map(email => ({ email }))
MapEmails(items) == [i \in 1..Len(items) |-> [email |-> items[i]]]

\* Mutant of AddAttendees: the guard tests the list's length, so an empty
\* list leaves the draft without an attendee list.
AddAttendeesNonEmpty(event, args) ==
  IF TruthyObject(args.attendees) /\ Len(args.attendees[1].items) > 0
  THEN [event EXCEPT !.attendees = <<MapEmails(args.attendees[1].items)>>]
  ELSE event

\* if (args.attendees) event.attendees = args.attendees.map(...)
AddAttendees(event, args) ==
  IF TruthyObject(args.attendees)
  THEN [event EXCEPT !.attendees = <<MapEmails(args.attendees[1].items)>>]
  ELSE event

DefaultReminders ==
  [useDefault |-> <<FALSE>>,
   overrides |-> << <<[method |-> "popup", minutes |-> 10]>> >>]

\* Mutant of SetReminders: supplied reminders without overrides of their own
\* are completed with the default's overrides.
SetRemindersMerged(event, args) ==
  IF TruthyObject(args.reminders)
  THEN IF IsUndefined(args.reminders[1].overrides)
       THEN [event EXCEPT !.reminders =
               <<[args.reminders[1] EXCEPT !.overrides = DefaultReminders.overrides]>>]
       ELSE [event EXCEPT !.reminders = args.reminders]
  ELSE [event EXCEPT !.reminders = <<DefaultReminders>>]

\* if (args.reminders) event.reminders = args.reminders; else the default
SetReminders(event, args) ==
  IF TruthyObject(args.reminders) THEN [event EXCEPT !.reminders = args.reminders]
  ELSE [event EXCEPT !.reminders = <<DefaultReminders>>]

\* Mutant of BuildEvent: the draft lives in a variable shared by the calls,
\* so a call entered while another is suspended submits that other's draft.
BuildEventShared(args) ==
  IF \E d \in Calls : calls[d].pc = "awaiting"
  THEN calls[CHOOSE d \in Calls : calls[d].pc = "awaiting"].event[1]
  ELSE SetReminders(AddAttendees(AddLocation(EventObject(args), args), args), args)

\* The requestBody handed to calendar.events.insert.
BuildEvent(args) == SetReminders(AddAttendees(AddLocation(EventObject(args), args), args), args)

\* Mutant of CreateEventReturn: the link is left out of the text.
CreateEventReturnNoLink(htmlLink) == <<"Event created">>

\* return `Event created: ${response.data.htmlLink}`
CreateEventReturn(htmlLink) == <<"Event created: ", htmlLink>>

\* Mutant of CreateEventCatch: the original message is dropped.
CreateEventCatchBare(message) == <<"Failed to create event">>

\* throw new Error(`Failed to create event: ${error.message}`)
CreateEventCatch(message) == <<"Failed to create event: ">> \o message

\* ------------------------------------------------------- call-tool handler

\* if (!args): the arguments property of request.params is missing.
ArgumentsMissing(request) == IsUndefined(request.arguments)

\* throw new Error("No arguments provided")
NoArgumentsError == <<"No arguments provided">>

TextContent(text) == <<[type |-> "text", text |-> text]>>

\* case "create_event": return {content: [...result], isError: false}
CallToolSuccess(result) ==
  [settled |-> "fulfilled", content |-> TextContent(result), isError |-> FALSE]

\* Mutant of CallToolUnknown: the text does not name the tool.
CallToolUnknownNameless(name) ==
  [settled |-> "fulfilled", content |-> TextContent(<<"Unknown tool">>),
   isError |-> TRUE]

\* default: return {content: [...`Unknown tool: ${name}`], isError: true}
CallToolUnknown(name) ==
  [settled |-> "fulfilled", content |-> TextContent(<<"Unknown tool: ", name>>),
   isError |-> TRUE]

\* Mutant of CallToolCatch: the error is thrown on to the transport.
CallToolRethrow(message) ==
  [settled |-> "rejected", content |-> TextContent(message), isError |-> TRUE]

\* catch (error): return {content: [...`Error: ${error.message}`], isError: true}
CallToolCatch(message) ==
  [settled |-> "fulfilled", content |-> TextContent(<<"Error: ">> \o message),
   isError |-> TRUE]

\* Mutant of HandleCall: the tool name is dispatched on before the arguments
\* are looked at, so an unknown tool without arguments is reported as unknown.
HandleCallNameFirst(request, concurrent) ==
  IF request.name /= "create_event"
  THEN [IdleCall EXCEPT !.pc = "done", !.request = <<request>>,
                        !.result = <<CallToolUnknown(request.name)>>]
  ELSE IF ArgumentsMissing(request)
  THEN [IdleCall EXCEPT !.pc = "done", !.request = <<request>>,
                        !.result = <<CallToolCatch(NoArgumentsError)>>]
  ELSE IF MapThrows(request.arguments[1])
  THEN [IdleCall EXCEPT !.pc = "done", !.request = <<request>>,
                        !.client = <<OAuth2Client(env)>>,
                        !.result = <<CallToolCatch(CreateEventCatch(MapTypeError))>>]
  ELSE [IdleCall EXCEPT !.pc = "awaiting", !.request = <<request>>,
                        !.client = <<OAuth2Client(env)>>,
                        !.event = <<BuildEvent(request.arguments[1])>>,
                        !.overlapped = concurrent]

\* The handler's activation from its entry to its first suspension or its
\* return: the slot's record afterwards.
HandleCall(request, concurrent) ==
  IF ArgumentsMissing(request)
  THEN [IdleCall EXCEPT !.pc = "done", !.request = <<request>>,
                        !.result = <<CallToolCatch(NoArgumentsError)>>]
  ELSE IF request.name = "create_event"
  THEN IF MapThrows(request.arguments[1])
       THEN [IdleCall EXCEPT !.pc = "done", !.request = <<request>>,
                             !.client = <<OAuth2Client(env)>>,
                             !.result = <<CallToolCatch(CreateEventCatch(MapTypeError))>>]
       ELSE [IdleCall EXCEPT !.pc = "awaiting", !.request = <<request>>,
                             !.client = <<OAuth2Client(env)>>,
                             !.event = <<BuildEvent(request.arguments[1])>>,
                             !.overlapped = concurrent]
  ELSE [IdleCall EXCEPT !.pc = "done", !.request = <<request>>,
                        !.result = <<CallToolUnknown(request.name)>>]

\* The last diagnostic line of that activation.
HandleCallLog(request) ==
  IF ArgumentsMissing(request) THEN Debug("Error in call tool handler:")
  ELSE IF request.name = "create_event"
  THEN IF MapThrows(request.arguments[1]) THEN Debug("Error in call tool handler:")
       ELSE Debug("Attempting to insert event")
  ELSE Debug("Unknown tool requested:")

\* -------------------------------------------------------------- operations

Init ==
  /\ env \in Environments
  /\ proc = "loading"
  /\ exit = <<>>
  /\ signalled = <<>>
  /\ stderr = Plain("")
  /\ calls = [c \in Calls |-> IdleCall]

\* The module body: the server object, the configuration check and the call
\* of runServer up to its await of server.connect.
LoadModule ==
  /\ proc = "loading"
  /\ IF ~TruthyString(env.GOOGLE_CLIENT_ID) \/ ~TruthyString(env.GOOGLE_CLIENT_SECRET)
     THEN /\ proc' = "exited"
          /\ exit' = <<1>>
          /\ stderr' = Plain("Error: GOOGLE_CLIENT_ID and GOOGLE_CLIENT_SECRET environment variables are required")
     ELSE /\ proc' = "connecting"
          /\ exit' = exit
          /\ stderr' = Debug("Starting server")
  /\ UNCHANGED <<env, signalled, calls>>

\* server.connect(transport) resolves.
ConnectResolve ==
  /\ proc = "connecting"
  /\ proc' = "running"
  /\ stderr' = Plain("Calendar MCP Server running on stdio")
  /\ UNCHANGED <<env, exit, signalled, calls>>

\* server.connect(transport) rejects: runServer().catch(...).
ConnectReject ==
  /\ proc = "connecting"
  /\ proc' = "exited"
  /\ exit' = <<1>>
  /\ stderr' = Plain("Fatal error running server:")
  /\ UNCHANGED <<env, signalled, calls>>

ListToolsResult == [tools |-> <<CREATE_EVENT_TOOL>>]

\* The list-tools handler.
ListTools ==
  /\ proc = "running"
  /\ Len(ListToolsResult.tools) = 1
  /\ stderr' = Debug("List tools request received")
  /\ UNCHANGED <<env, proc, exit, signalled, calls>>

\* The call-tool handler is entered for a request in slot c.
CallTool(c, request) ==
  /\ proc = "running"
  /\ calls[c].pc = "idle"
  /\ LET concurrent == \E d \in Calls \ {c} : calls[d].pc = "awaiting"
         mine == HandleCall(request, concurrent)
     IN calls' = [d \in Calls |->
                    IF d = c THEN mine
                    ELSE IF mine.pc = "awaiting" /\ calls[d].pc = "awaiting"
                    THEN [calls[d] EXCEPT !.overlapped = TRUE]
                    ELSE calls[d]]
  /\ stderr' = HandleCallLog(request)
  /\ UNCHANGED <<env, proc, exit, signalled>>

\* calendar.events.insert resolves for the call in slot c.
InsertResolve(c, htmlLink) ==
  /\ proc = "running"
  /\ calls[c].pc = "awaiting"
  /\ calls' = [calls EXCEPT ![c] =
                 [@ EXCEPT !.pc = "done",
                           !.response = <<[ok |-> TRUE, text |-> htmlLink]>>,
                           !.result = <<CallToolSuccess(CreateEventReturn(htmlLink))>>]]
  /\ stderr' = Debug("Event creation successful:")
  /\ UNCHANGED <<env, proc, exit, signalled>>

\* calendar.events.insert rejects for the call in slot c.
InsertReject(c, message) ==
  /\ proc = "running"
  /\ calls[c].pc = "awaiting"
  /\ calls' = [calls EXCEPT ![c] =
                 [@ EXCEPT !.pc = "done",
                           !.response = <<[ok |-> FALSE, text |-> message]>>,
                           !.result = <<CallToolCatch(CreateEventCatch(<<message>>))>>]]
  /\ stderr' = Debug("Error in call tool handler:")
  /\ UNCHANGED <<env, proc, exit, signalled>>

\* The handler's promise has settled; the result leaves on the transport
\* and the activation is gone.
Respond(c) ==
  /\ proc = "running"
  /\ calls[c].pc = "done"
  /\ calls' = [calls EXCEPT ![c] = IdleCall]
  /\ UNCHANGED <<env, proc, exit, signalled, stderr>>

\* A termination signal arrives. The module installs no handler, so the
\* runtime's default disposition ends the process (status 128 + signal
\* number) whatever it was doing; nothing is written.
Signal(sig) ==
  /\ proc /= "exited"
  /\ proc' = "exited"
  /\ exit' = <<128 + SignalNumber(sig)>>
  /\ signalled' = <<[signal |-> sig, during |-> proc]>>
  /\ calls' = [c \in Calls |-> IdleCall]
  /\ UNCHANGED <<env, stderr>>

\* Slot c can take a request (CallTool's guard, stated ahead of the choice
\* of the request).
Free(c) == proc = "running" /\ calls[c].pc = "idle"

Lifecycle ==
  \/ LoadModule
  \/ ConnectResolve
  \/ ConnectReject
  \/ ListTools
  \/ \E sig \in Signals : Signal(sig)

Settle(c) ==
  \/ \E htmlLink \in Links : InsertResolve(c, htmlLink)
  \/ \E message \in FailureTexts : InsertReject(c, message)
  \/ Respond(c)

\* Overlapping calls, requests drawn from OverlapRequests.
Next ==
  \/ Lifecycle
  \/ \E c \in Calls : Free(c) /\ \E request \in OverlapRequests : CallTool(c, request)
  \/ \E c \in Calls : Settle(c)

Spec == Init /\ [][Next]_vars

\* One call at a time, requests drawn from AllRequests.
NextBuild ==
  \/ Lifecycle
  \/ Free(1) /\ \E request \in AllRequests : CallTool(1, request)
  \/ Settle(1)

SpecBuild == Init /\ [][NextBuild]_vars

\* ------------------------------------------------------------ observations

Done(c) == calls[c].pc = "done"
Req(c) == calls[c].request[1]
HasArgs(c) == Len(Req(c).arguments) = 1
Args(c) == Req(c).arguments[1]
Submitted(c) == Len(calls[c].event) = 1
Event(c) == calls[c].event[1]
Result(c) == calls[c].result[1]
Text(c) == Result(c).content[1].text
Rejected(c) == Len(calls[c].response) = 1 /\ ~calls[c].response[1].ok
Resolved(c) == Len(calls[c].response) = 1 /\ calls[c].response[1].ok
Answer(c) == calls[c].response[1].text
Fulfilled(c) == Len(calls[c].result) = 1 /\ Result(c).settled = "fulfilled"

\* A tool-execution problem: no arguments, an unknown tool, an exception
\* while the draft is built, or a rejected insertion.
Problem(c) ==
  \/ ~HasArgs(c)
  \/ Req(c).name /= "create_event"
  \/ MapThrows(Args(c))
  \/ Rejected(c)

\* ------------------------------------------------------------------ claims

\* C1: every finished call-tool activation returned (its promise is
\* fulfilled, nothing was thrown to the transport) a result with exactly one
\* text item and a boolean isError, and isError is true whenever the call hit
\* a tool-execution problem.
C1_WellFormedResult ==
  \A c \in Calls :
    Done(c) =>
      /\ Fulfilled(c)
      /\ Len(Result(c).content) = 1
      /\ Result(c).content[1].type = "text"
      /\ Len(Text(c)) >= 1
      /\ Result(c).isError \in BOOLEAN
      /\ Problem(c) => Result(c).isError

C1_Witness ==
  \E c \in Calls :
    /\ Done(c) /\ HasArgs(c) /\ Req(c).name = "create_event"
    /\ MapThrows(Args(c))
    /\ Result(c).isError
    /\ Text(c) = <<"Error: ", "Failed to create event: ",
                   "args.attendees.map is not a function">>

\* C2 as stated: every finished call with a tool name other than
\* create_event, its argument bag present or not, has isError = true and a
\* text containing the name.
C2_Original ==
  \A c \in Calls :
    (Done(c) /\ Req(c).name /= "create_event") =>
      /\ Fulfilled(c)
      /\ Result(c).isError
      /\ Contains(Text(c), Req(c).name)

\* C2 amended: a finished call with a tool name other than create_event
\* returned isError = true and never threw; its text is "Unknown tool: <name>"
\* when the argument bag is present, and the no-arguments error (which does
\* not name the tool) when the bag is absent.
C2_UnknownTool ==
  \A c \in Calls :
    (Done(c) /\ Req(c).name /= "create_event") =>
      /\ Fulfilled(c)
      /\ Result(c).isError
      /\ HasArgs(c) => /\ Text(c) = <<"Unknown tool: ", Req(c).name>>
                       /\ Contains(Text(c), Req(c).name)
      /\ ~HasArgs(c) => /\ Text(c) = <<"Error: ", "No arguments provided">>
                        /\ ~Contains(Text(c), Req(c).name)

C2_Witness ==
  \E c \in Calls :
    /\ Done(c) /\ Req(c).name = "delete_event" /\ HasArgs(c)
    /\ Result(c).isError
    /\ Text(c) = <<"Unknown tool: ", "delete_event">>

\* C3: a call whose argument bag is absent never reaches the remote
\* insertion (no OAuth client, no draft, no response) and finishes with
\* isError = true and the message "No arguments provided" (carried in the
\* text behind the boundary's "Error: " prefix), whatever the tool name.
C3_NoArguments ==
  \A c \in Calls :
    (calls[c].pc /= "idle" /\ ~HasArgs(c)) =>
      /\ Done(c)
      /\ Fulfilled(c)
      /\ Result(c).isError
      /\ Text(c) = <<"Error: ", "No arguments provided">>
      /\ calls[c].client = <<>>
      /\ calls[c].event = <<>>
      /\ calls[c].response = <<>>

C3_Witness ==
  \E c \in Calls :
    /\ Done(c) /\ Req(c).name = "create_event" /\ ~HasArgs(c)
    /\ Result(c).isError
    /\ Contains(Text(c), "No arguments provided")

\* C4: a call whose insertion was rejected finishes with isError = true and a
\* text containing the provider's failure text, and the process is still
\* running with no exit status: list-tools, the reply of this call and a new
\* call-tool request in every free slot are all enabled.
C4_RejectionSurvived ==
  \A c \in Calls :
    (Done(c) /\ Rejected(c)) =>
      /\ Fulfilled(c)
      /\ Result(c).isError
      /\ Contains(Text(c), Answer(c))
      /\ proc = "running"
      /\ exit = <<>>
      /\ ENABLED ListTools
      /\ ENABLED Respond(c)
      /\ \A d \in Calls : \A request \in OverlapRequests :
           calls[d].pc = "idle" => ENABLED CallTool(d, request)

C4_Witness ==
  \E c, d \in Calls :
    /\ c /= d
    /\ Done(c) /\ Rejected(c) /\ Answer(c) = "invalid_grant"
    /\ Done(d) /\ Rejected(d) /\ Answer(d) = "Quota exceeded"
    /\ Text(c) = <<"Error: ", "Failed to create event: ", "invalid_grant">>
    /\ proc = "running"

\* A required argument (summary, start_time, end_time) is missing or empty.
MissingRequired(args) ==
  \E f \in CREATE_EVENT_TOOL.required : ~TruthyString(args[f])

\* C5 as stated: a create_event call with summary, start_time or end_time
\* missing or empty submits no draft to the remote client and finishes with
\* isError = true.
C5_Original ==
  \A c \in Calls :
    (calls[c].pc /= "idle" /\ Req(c).name = "create_event" /\ HasArgs(c)
       /\ MissingRequired(Args(c))) =>
      /\ ~Submitted(c)
      /\ calls[c].pc = "done"
      /\ Result(c).isError

\* C6: the draft submitted for a create_event call without reminders carries
\* exactly one override, {method: "popup", minutes: 10}; with reminders
\* supplied it carries the supplied value unchanged.
C6_Reminders ==
  \A c \in Calls :
    Submitted(c) =>
      IF IsUndefined(Args(c).reminders)
      THEN /\ Len(Event(c).reminders) = 1
           /\ Len(Event(c).reminders[1].overrides) = 1
           /\ Event(c).reminders[1].overrides[1] =
                <<[method |-> "popup", minutes |-> 10]>>
           /\ Event(c).reminders[1].useDefault = <<FALSE>>
      ELSE Event(c).reminders = Args(c).reminders

C6_Witness ==
  \E c \in Calls :
    /\ Submitted(c)
    /\ IsUndefined(Args(c).reminders)
    /\ Args(c).summary = <<"Sync">>
    /\ Event(c).reminders[1].overrides[1] = <<[method |-> "popup", minutes |-> 10]>>

\* C7: the draft submitted for a call without attendees has no attendee
\* list; for a call with a list of N emails (N = 0 included) it has a list
\* of exactly N entries, the i-th being {email: the i-th email}.
C7_Attendees ==
  \A c \in Calls :
    Submitted(c) =>
      IF IsUndefined(Args(c).attendees)
      THEN IsUndefined(Event(c).attendees)
      ELSE /\ Len(Event(c).attendees) = 1
           /\ Len(Event(c).attendees[1]) = Len(Args(c).attendees[1].items)
           /\ \A i \in 1..Len(Args(c).attendees[1].items) :
                Event(c).attendees[1][i] = [email |-> Args(c).attendees[1].items[i]]

C7_Witness ==
  \E c \in Calls :
    /\ Submitted(c)
    /\ Args(c).attendees = <<JSArray(<<"b@x.io", "a@x.io">>)>>
    /\ Event(c).attendees = << <<[email |-> "b@x.io"], [email |-> "a@x.io"]>> >>

\* C8: a call whose insertion succeeded finishes with isError = false and
\* the text "Event created: <the returned link>"; a finished call has
\* isError = false only if its insertion succeeded.
C8_Success ==
  \A c \in Calls :
    Done(c) =>
      /\ Resolved(c) => /\ Fulfilled(c)
                        /\ ~Result(c).isError
                        /\ Text(c) = <<"Event created: ", Answer(c)>>
      /\ ~Result(c).isError => Resolved(c)

C8_Witness ==
  \E c \in Calls :
    /\ Done(c) /\ Resolved(c) /\ Answer(c) = "https://cal/e2"
    /\ ~Result(c).isError
    /\ Text(c) = <<"Event created: ", "https://cal/e2">>

\* C9 as stated: once a termination signal has been delivered to the running
\* process, it has logged at info severity and exited with status 0; and
\* status 1 is the status of missing configuration or of a failed start-up
\* only.
C9_Original ==
  /\ (Len(signalled) = 1 /\ signalled[1].during = "running") =>
       /\ proc = "exited"
       /\ exit = <<0>>
       /\ stderr.tag = "INFO:"
  /\ exit = <<1>> =>
       \/ ~TruthyString(env.GOOGLE_CLIENT_ID)
       \/ ~TruthyString(env.GOOGLE_CLIENT_SECRET)
       \/ stderr = Plain("Fatal error running server:")

\* C10: with calls overlapping, the draft submitted for a call is made of
\* that call's own arguments, and a finished call's text carries that call's
\* own link or failure text; a step of one call leaves the request, draft,
\* response and result of every other call in flight as they were.
C10_OwnDraftAndResult ==
  \A c \in Calls :
    /\ Submitted(c) =>
         /\ Event(c).summary = Args(c).summary
         /\ Event(c).description = Args(c).description
         /\ Event(c).start.dateTime = Args(c).start_time
         /\ Event(c).end.dateTime = Args(c).end_time
         /\ IsUndefined(Event(c).attendees) = IsUndefined(Args(c).attendees)
         /\ ~IsUndefined(Args(c).reminders) => Event(c).reminders = Args(c).reminders
    /\ (Done(c) /\ Resolved(c)) => Text(c) = <<"Event created: ", Answer(c)>>
    /\ (Done(c) /\ Rejected(c)) =>
         Text(c) = <<"Error: ", "Failed to create event: ", Answer(c)>>

C10_OthersUntouched ==
  \A c \in Calls :
    (calls[c].pc /= "idle" /\ calls'[c].pc /= "idle" /\ calls'[c].pc = calls[c].pc) =>
      /\ calls'[c].request = calls[c].request
      /\ calls'[c].client = calls[c].client
      /\ calls'[c].event = calls[c].event
      /\ calls'[c].response = calls[c].response
      /\ calls'[c].result = calls[c].result

C10_Isolation == []C10_OwnDraftAndResult /\ [][C10_OthersUntouched]_vars

C10_Witness ==
  \E c, d \in Calls :
    /\ c /= d
    /\ Done(c) /\ calls[c].overlapped /\ Resolved(c)
    /\ Done(d) /\ calls[d].overlapped /\ Rejected(d)
    /\ Req(c) /= Req(d)
    /\ Event(c) /= Event(d)

====
